---- MODULE Spec2Model ----
(***************************************************************************)
(* tmsim-converter (src/src/main.rs): a line-oriented description of a     *)
(* Turing machine is read line by line, each line is classified by one of  *)
(* three regular expressions, parsed, and folded into a                    *)
(* TMachineConfiguration that is serialized at end of input.               *)
(*                                                                         *)
(* A string is a sequence of characters; a character is a one-character    *)
(* TLA+ string ("U+0663" stands for the single character ARABIC-INDIC      *)
(* DIGIT THREE, "\t" for the tab).  Option<T> is a sequence of length at   *)
(* most one: None is <<>> and Some(x) is <<x>>.                            *)
(***************************************************************************)
EXTENDS Integers, Sequences, FiniteSets, TLC

\* ------------------------------------------------------------------ bounds
MaxLines == 3        \* lines of an input file built from CoreLines
MaxContent == 3      \* characters between the parentheses of a declaration
MaxDigits == 2       \* digits of a generated state number
MaxSpaces == 1       \* spaces between a declaration keyword and its "("

\* -------------------------------------------------------------- characters
AsciiDigits == {"0", "1", "2", "3", "4", "5", "6", "7", "8", "9"}

\* What the regex class \d accepts: Unicode decimal digits, not only ASCII.
RegexDigits == AsciiDigits \cup {"U+0663"}

AnyChar ==
    AsciiDigits \cup
    {"U+0663", "\t", " ", "(", ")", "*", "+", "-", ":", ">", "L", "R", "S", "X",
     "a", "b", "e", "h", "l", "p", "q", "t"}

\* The total order of char (Ord for char compares code points).
CodePoint ==
    [c \in AnyChar |->
        CASE c = "\t" -> 9   [] c = " " -> 32  [] c = "(" -> 40  [] c = ")" -> 41
          [] c = "*" -> 42   [] c = "+" -> 43  [] c = "-" -> 45  [] c = "0" -> 48
          [] c = "1" -> 49   [] c = "2" -> 50  [] c = "3" -> 51  [] c = "4" -> 52
          [] c = "5" -> 53   [] c = "6" -> 54  [] c = "7" -> 55  [] c = "8" -> 56
          [] c = "9" -> 57   [] c = ":" -> 58  [] c = ">" -> 62  [] c = "L" -> 76
          [] c = "R" -> 82   [] c = "S" -> 83  [] c = "X" -> 88  [] c = "a" -> 97
          [] c = "b" -> 98   [] c = "e" -> 101 [] c = "h" -> 104
          [] c = "l" -> 108  [] c = "p" -> 112 [] c = "q" -> 113 [] c = "t" -> 116
          [] c = "U+0663" -> 1635]

IsWhitespace(c) == c \in {" ", "\t"}

\* ------------------------------------------------------- Option<T> helpers
None == <<>>
Some(x) == <<x>>
is_none(o) == o = <<>>
unwrap(o) == o[1]

\* ----------------------------------------------------------- str functions
RECURSIVE trim_start_matches(_, _)
\* str::trim_start_matches(set): drop every leading character in the set
trim_start_matches(s, set) ==
    IF s # <<>> /\ Head(s) \in set THEN trim_start_matches(Tail(s), set) ELSE s

RECURSIVE trim_end_matches(_, _)
\* str::trim_end_matches(set): drop every trailing character in the set
trim_end_matches(s, set) ==
    IF s # <<>> /\ s[Len(s)] \in set
    THEN trim_end_matches(SubSeq(s, 1, Len(s) - 1), set)
    ELSE s

\* str::trim(): drop leading and trailing whitespace
trim(s) ==
    trim_end_matches(trim_start_matches(s, {c \in AnyChar : IsWhitespace(c)}),
                     {c \in AnyChar : IsWhitespace(c)})

\* Position of the first occurrence of pat in s at or after i; 0 when none.
RECURSIVE Find(_, _, _)
Find(s, pat, i) ==
    IF i + Len(pat) - 1 > Len(s) THEN 0
    ELSE IF SubSeq(s, i, i + Len(pat) - 1) = pat THEN i
    ELSE Find(s, pat, i + 1)

RECURSIVE split(_, _)
\* str::split(pat).collect::<Vec<_>>(): the pieces between the occurrences of
\* the non-empty pattern pat, n + 1 pieces for n occurrences
split(s, pat) ==
    LET i == Find(s, pat, 1)
    IN  IF i = 0 THEN <<s>>
        ELSE <<SubSeq(s, 1, i - 1)>> \o split(SubSeq(s, i + Len(pat), Len(s)), pat)

\* ------------------------------------------------------------------- regex
\* A pattern is a sequence of atoms [cls, rep]: a character class repeated
\* once ("1"), zero or more times ("*") or one or more times ("+").  The
\* patterns of main are anchored with ^ and $, so is_match is a full match.
One(cls) == [cls |-> cls, rep |-> "1"]
Star(cls) == [cls |-> cls, rep |-> "*"]
Plus(cls) == [cls |-> cls, rep |-> "+"]

RECURSIVE MatchFrom(_, _, _, _)
MatchFrom(re, i, s, j) ==
    IF i > Len(re) THEN j = Len(s) + 1
    ELSE LET a == re[i]
             here == j <= Len(s) /\ s[j] \in a.cls
         IN  CASE a.rep = "1" -> here /\ MatchFrom(re, i + 1, s, j + 1)
               [] a.rep = "*" -> MatchFrom(re, i + 1, s, j)
                                 \/ (here /\ MatchFrom(re, i, s, j + 1))
               [] a.rep = "+" -> here /\ (MatchFrom(re, i + 1, s, j + 1)
                                          \/ MatchFrom(re, i, s, j + 1))

is_match(re, s) == MatchFrom(re, 1, s, 1)

\* r"^q\d+[(].[)] -> q\d+[(].[)](R|L|S)$"
command_pattern ==
    <<One({"q"}), Plus(RegexDigits), One({"("}), One(AnyChar), One({")"}),
      One({" "}), One({"-"}), One({">"}), One({" "}),
      One({"q"}), Plus(RegexDigits), One({"("}), One(AnyChar), One({")"}),
      One({"R", "L", "S"})>>

\* r"^alphabet: *[(].*[)]$"
alphabet_pattern ==
    <<One({"a"}), One({"l"}), One({"p"}), One({"h"}), One({"a"}), One({"b"}),
      One({"e"}), One({"t"}), One({":"}), Star({" "}),
      One({"("}), Star(AnyChar), One({")"})>>

\* r"^tape: *[(][*].*[)]$"
tape_pattern ==
    <<One({"t"}), One({"a"}), One({"p"}), One({"e"}), One({":"}), Star({" "}),
      One({"("}), One({"*"}), Star(AnyChar), One({")"})>>

\* ------------------------------------------------------ outcomes of a call
\* A call either returns a value or panics (index out of bounds, unwrap on
\* an Err); a panic unwinds main and ends the process.
Ok(v) == [kind |-> "ok", val |-> v, msg |-> ""]
Panic(m) == [kind |-> "panic", val |-> <<>>, msg |-> m]

\* ------------------------------------------------------------ usize parsing
\* usize::MAX of a 64-bit target, in decimal.
UsizeMaxDigits ==
    <<"1", "8", "4", "4", "6", "7", "4", "4", "0", "7",
      "3", "7", "0", "9", "5", "5", "1", "6", "1", "5">>

RECURSIVE DecimalValue(_)
DecimalValue(s) ==
    IF s = <<>> THEN 0
    ELSE 10 * DecimalValue(SubSeq(s, 1, Len(s) - 1)) + (CodePoint[s[Len(s)]] - 48)

RECURSIVE LexGreater(_, _)
\* a > b for two digit strings of the same length
LexGreater(a, b) ==
    IF a = <<>> THEN FALSE
    ELSE IF Head(a) # Head(b) THEN CodePoint[Head(a)] > CodePoint[Head(b)]
    ELSE LexGreater(Tail(a), Tail(b))

\* The decimal number written by the ASCII digits s exceeds usize::MAX.
ExceedsUsize(s) ==
    LET t == trim_start_matches(s, {"0"})
    IN  \/ Len(t) > Len(UsizeMaxDigits)
        \/ Len(t) = Len(UsizeMaxDigits) /\ LexGreater(t, UsizeMaxDigits)

\* str::parse::<usize>(): Result<usize, ParseIntError>.  One leading "+" is
\* accepted; every other character must be an ASCII digit.
ParseUsize(s) ==
    LET digits == IF s # <<>> /\ Head(s) = "+" THEN Tail(s) ELSE s
    IN  IF s = <<>> THEN [ok |-> FALSE, val |-> 0, err |-> "Empty"]
        ELSE IF digits = <<>> \/ \E i \in 1..Len(digits) : digits[i] \notin AsciiDigits
        THEN [ok |-> FALSE, val |-> 0, err |-> "InvalidDigit"]
        ELSE IF ExceedsUsize(digits)
        THEN [ok |-> FALSE, val |-> 0, err |-> "PosOverflow"]
        ELSE [ok |-> TRUE, val |-> DecimalValue(digits), err |-> ""]

\* --------------------------------------------------- parse_alphabet_or_tape
RECURSIVE Insert(_, _)
Insert(c, sorted) ==
    IF sorted = <<>> THEN <<c>>
    ELSE IF CodePoint[c] <= CodePoint[Head(sorted)] THEN <<c>> \o sorted
    ELSE <<Head(sorted)>> \o Insert(c, Tail(sorted))

\* The sort left out: dedup then removes adjacent duplicates only.
sort_unstable_omitted(chars) == chars

RECURSIVE sort_unstable(_)
\* Vec<char>::sort_unstable(): ascending by code point (equal characters are
\* indistinguishable, so the instability is not observable)
sort_unstable(chars) ==
    IF chars = <<>> THEN <<>> ELSE Insert(Head(chars), sort_unstable(Tail(chars)))

RECURSIVE dedup(_)
\* Vec<char>::dedup(): of every run of equal consecutive elements keep the first
dedup(chars) ==
    IF Len(chars) <= 1 THEN chars
    ELSE IF chars[1] = chars[2] THEN dedup(Tail(chars))
    ELSE <<chars[1]>> \o dedup(Tail(chars))

parse_alphabet_or_tape(line, is_tape) ==
    LET pieces == split(line, <<"(">>)
    IN  IF Len(pieces) < 2 THEN Panic("index out of bounds: line.split('(')[1]")
        ELSE LET uncleaned == trim_end_matches(pieces[2], {")"})
             IN  Ok(IF ~is_tape THEN dedup(sort_unstable(uncleaned)) ELSE uncleaned)

\* ------------------------------------------------------------ parse_command
\* match ... { 'R' => "Right", 'L' => "Left", 'S' => "Stop", _ => "Stop" }
movment(c) ==
    CASE c = "R" -> "Right"
      [] c = "L" -> "Left"
      [] c = "S" -> "Stop"
      [] OTHER -> "Stop"

Command(state_num, new_state_num, symbol, new_symbol, move) ==
    [state |-> state_num, next_state |-> new_state_num, reading_char |-> symbol,
     place_char |-> new_symbol, next_move |-> move]

parse_command(line) ==
    LET parts == split(line, <<"-", ">">>)
    IN
    IF Len(parts) < 2 THEN Panic("index out of bounds: parts[1]") ELSE
    LET left_part == trim_start_matches(trim(parts[1]), {"q"})
        right_part == trim_start_matches(trim(parts[2]), {"q"})
        left_split == split(left_part, <<"(">>)
        state_num == ParseUsize(trim(left_split[1]))
    IN
    IF ~state_num.ok THEN Panic("unwrap on ParseIntError: state_num") ELSE
    IF Len(left_split) < 2 THEN Panic("index out of bounds: left_split[1]") ELSE
    LET symbol == trim_end_matches(left_split[2], {")"})
    IN
    IF symbol = <<>> THEN Panic("index out of bounds: symbol") ELSE
    LET right_split == split(right_part, <<"(">>)
        new_state_num == ParseUsize(trim(right_split[1]))
    IN
    IF ~new_state_num.ok THEN Panic("unwrap on ParseIntError: new_state_num") ELSE
    IF Len(right_split) < 2 THEN Panic("index out of bounds: right_split[1]") ELSE
    LET sym_move_split == split(right_split[2], <<")">>)
    IN
    IF sym_move_split[1] = <<>> THEN Panic("index out of bounds: new_symbol") ELSE
    IF Len(sym_move_split) < 2 THEN Panic("index out of bounds: sym_move_split[1]") ELSE
    IF sym_move_split[2] = <<>> THEN Panic("index out of bounds: movment") ELSE
    Ok(Command(state_num.val, new_state_num.val, symbol[1], sym_move_split[1][1],
               movment(sym_move_split[2][1])))

\* ------------------------------------------------------------------- input
\* The source file as the line reader yields it: each item is Ok(text) or an
\* Err (a line that is not valid UTF-8, a failing read).
Line(text) == [ok |-> TRUE, text |-> text]
ReadErr == [ok |-> FALSE, text |-> <<>>]

Spaces(n) == [i \in 1..n |-> " "]
KwAlphabet == <<"a", "l", "p", "h", "a", "b", "e", "t", ":">>
KwTape == <<"t", "a", "p", "e", ":">>

RenderCommand(S, r, N, w, M) ==
    <<"q">> \o S \o <<"(", r, ")", " ", "-", ">", " ", "q">> \o N \o <<"(", w, ")", M>>
RenderDecl(kw, n, content) == kw \o Spaces(n) \o <<"(">> \o content \o <<")">>

SeqsUpTo(S, n) == UNION {[1..k -> S] : k \in 0..n}

\* Lines of the multi-line inputs: well-formed lines of each kind, two rules
\* for the same (state, read symbol), a line wrapped in whitespace, lines no
\* pattern accepts, and a transition whose read symbol is a parenthesis.
CoreItems ==
    {Line(RenderCommand(<<"0">>, "a", <<"1">>, "b", "R")),
     Line(RenderCommand(<<"0">>, "a", <<"2">>, "a", "L")),
     Line(RenderCommand(<<"0">>, "(", <<"1">>, "b", "S")),
     Line(RenderCommand(<<"0">>, "a", <<"1">>, "b", "X")),
     Line(RenderDecl(KwAlphabet, 1, <<"b", "a">>)),
     Line(RenderDecl(KwAlphabet, 1, <<"b", "(", "a">>)),
     Line(<<" ", "\t">> \o RenderDecl(KwAlphabet, 0, <<"a", "b", "a">>) \o <<" ">>),
     Line(RenderDecl(KwTape, 1, <<"*", "a", "a", "b">>)),
     Line(RenderDecl(KwTape, 1, <<"*", "b", ")">>)),
     Line(RenderDecl(KwTape, 1, <<"a", "b">>)),
     Line(<<>>),
     ReadErr}

\* State numbers of the generated transition lines: short digit runs, a run
\* one above usize::MAX and a non-ASCII decimal digit.
StateTexts ==
    (SeqsUpTo({"0", "7"}, MaxDigits) \ {<<>>})
    \cup {SubSeq(UsizeMaxDigits, 1, Len(UsizeMaxDigits) - 1) \o <<"6">>, <<"U+0663">>}

SymbolChars == {"a", "(", ")", " ", "-", ">", "q"}

CommandLines ==
    {RenderCommand(S, r, N, w, M) :
        S \in StateTexts, r \in SymbolChars, N \in StateTexts, w \in SymbolChars,
        M \in {"R", "L", "S"}}

ContentChars == {"a", "b", "(", ")", " "}

DeclLines ==
    {RenderDecl(kw, n, star \o content) :
        kw \in {KwAlphabet, KwTape}, n \in 0..MaxSpaces, star \in {<<>>, <<"*">>},
        content \in SeqsUpTo(ContentChars, MaxContent)}

Inputs ==
    SeqsUpTo(CoreItems, MaxLines)
    \cup {<<Line(text)>> : text \in CommandLines \cup DeclLines}

\* ------------------------------------------------------------------- state
VARIABLES
    input,          \* the items the line reader yields for options.source
    pc,             \* "start", "loop", "exited", "panicked"
    pos,            \* number of items whose loop iteration has completed (an
                    \* iteration that exits or panics does not complete)
    line,           \* Option: the trimmed line of the latest iteration
    new_command,    \* Option: the Command parsed by the latest iteration
    commands,       \* tmachineconf.commands
    alphabet,       \* tmachineconf.alphabet
    tape,           \* tmachineconf.tape
    status,         \* Option: the exit status of the process
    stderr,         \* the messages written to stderr
    stdout,         \* Option: the configuration printed to stdout
    outfile         \* Option: the file created at options.out

vars == <<input, pc, pos, line, new_command, commands, alphabet, tape,
          status, stderr, stdout, outfile>>

conf_vars == <<commands, alphabet, tape>>
out_vars == <<stdout, outfile>>
loop_vars == <<pos, line, new_command>>

tmachineconf == [commands |-> commands, alphabet |-> alphabet, tape |-> tape]

Init ==
    /\ input \in Inputs
    /\ pc = "start"
    /\ pos = 0
    /\ line = None
    /\ new_command = None
    /\ commands = <<>>
    /\ alphabet = None
    /\ tape = None
    /\ status = None
    /\ stderr = <<>>
    /\ stdout = None
    /\ outfile = None

\* eprintln!(msg); std::process::exit(code)
exit(code, msg) ==
    /\ pc' = "exited"
    /\ status' = Some(code)
    /\ stderr' = Append(stderr, msg)

\* A panic prints its message and ends the process with status 101.
panic(msg) ==
    /\ pc' = "panicked"
    /\ status' = Some(101)
    /\ stderr' = Append(stderr, msg)

\* ----------------------------------------------------------- opening source
SourceMissing ==
    /\ pc = "start"
    /\ exit(1, "Specified file does not exists!")
    /\ UNCHANGED <<input, loop_vars, conf_vars, out_vars>>

OpenFails ==
    /\ pc = "start"
    /\ exit(2, "Failed to open file!")
    /\ UNCHANGED <<input, loop_vars, conf_vars, out_vars>>

OpenSource ==
    /\ pc = "start"
    /\ pc' = "loop"
    /\ UNCHANGED <<input, loop_vars, conf_vars, status, stderr, out_vars>>

\* ------------------------------------------------------------ the line loop
HasNext == pc = "loop" /\ pos < Len(input)
next_item == input[pos + 1]
next_line == trim(next_item.text)

\* The if / else if chain of the loop body.
Classify(l) ==
    IF is_match(command_pattern, l) THEN "command"
    ELSE IF is_match(alphabet_pattern, l) THEN "alphabet"
    ELSE IF is_match(tape_pattern, l) THEN "tape"
    ELSE "ignored"

\* A push that keeps one entry per rule.
push_unless_present(vec, x) ==
    IF \E i \in 1..Len(vec) : vec[i] = x THEN vec ELSE Append(vec, x)

push(vec, x) == Append(vec, x)

ReadFails ==
    /\ HasNext
    /\ ~next_item.ok
    /\ exit(3, "Failed to read next line!")
    /\ UNCHANGED <<input, loop_vars, conf_vars, out_vars>>

ReadCommand ==
    /\ HasNext
    /\ next_item.ok
    /\ Classify(next_line) = "command"
    /\ parse_command(next_line).kind = "ok"
    /\ line' = Some(next_line)
    /\ new_command' = Some(parse_command(next_line).val)
    /\ commands' = push(commands, parse_command(next_line).val)
    /\ pos' = pos + 1
    /\ UNCHANGED <<input, pc, alphabet, tape, status, stderr, out_vars>>

ReadCommandPanics ==
    /\ HasNext
    /\ next_item.ok
    /\ Classify(next_line) = "command"
    /\ parse_command(next_line).kind = "panic"
    /\ line' = Some(next_line)
    /\ new_command' = None
    /\ panic(parse_command(next_line).msg)
    /\ UNCHANGED <<input, pos, conf_vars, out_vars>>

\* tmachineconf.alphabet = Some(parse_alphabet_or_tape(&line, false))
set_alphabet(l) ==
    LET r == parse_alphabet_or_tape(l, FALSE)
    IN  IF r.kind = "ok"
        THEN alphabet' = Some(r.val) /\ pos' = pos + 1 /\ UNCHANGED <<pc, status, stderr>>
        ELSE panic(r.msg) /\ UNCHANGED <<alphabet, pos>>

\* tmachineconf.tape = Some(parse_alphabet_or_tape(&line, true))
set_tape(l) ==
    LET r == parse_alphabet_or_tape(l, TRUE)
    IN  IF r.kind = "ok"
        THEN tape' = Some(r.val) /\ pos' = pos + 1 /\ UNCHANGED <<pc, status, stderr>>
        ELSE panic(r.msg) /\ UNCHANGED <<tape, pos>>

ReadAlphabet ==
    /\ HasNext
    /\ next_item.ok
    /\ Classify(next_line) = "alphabet"
    /\ line' = Some(next_line)
    /\ new_command' = None
    /\ set_alphabet(next_line)
    /\ UNCHANGED <<input, commands, tape, out_vars>>

ReadTape ==
    /\ HasNext
    /\ next_item.ok
    /\ Classify(next_line) = "tape"
    /\ line' = Some(next_line)
    /\ new_command' = None
    /\ set_tape(next_line)
    /\ UNCHANGED <<input, commands, alphabet, out_vars>>

\* An else branch that rejects the line.
skip_line_rejects ==
    /\ exit(9, "Unrecognized line!")
    /\ UNCHANGED <<pos, conf_vars>>

\* No branch of the chain is taken: the body has no else.
skip_line ==
    /\ pos' = pos + 1
    /\ UNCHANGED <<pc, conf_vars, status, stderr>>

ReadIgnored ==
    /\ HasNext
    /\ next_item.ok
    /\ Classify(next_line) = "ignored"
    /\ line' = Some(next_line)
    /\ new_command' = None
    /\ skip_line
    /\ UNCHANGED <<input, out_vars>>

\* ------------------------------------------------------------ end of input
AtEnd == pc = "loop" /\ pos = Len(input)

\* The tape check placed first: with nothing declared the tape is reported.
MissingAlphabet_tape_first ==
    /\ AtEnd
    /\ is_none(alphabet)
    /\ IF is_none(tape)
       THEN exit(5, "No tape was provided!")
       ELSE exit(4, "No alphabet was provided!")
    /\ UNCHANGED <<input, loop_vars, conf_vars, out_vars>>

MissingAlphabet ==
    /\ AtEnd
    /\ is_none(alphabet)
    /\ exit(4, "No alphabet was provided!")
    /\ UNCHANGED <<input, loop_vars, conf_vars, out_vars>>

\* The message without the exit: the run goes on to print the configuration.
MissingTape_no_exit ==
    /\ AtEnd
    /\ ~is_none(alphabet)
    /\ is_none(tape)
    /\ stderr' = Append(stderr, "No tape was provided!")
    /\ stdout' = Some(tmachineconf)
    /\ pc' = "exited"
    /\ status' = Some(0)
    /\ UNCHANGED <<input, loop_vars, conf_vars, outfile>>

MissingTape ==
    /\ AtEnd
    /\ ~is_none(alphabet)
    /\ is_none(tape)
    /\ exit(5, "No tape was provided!")
    /\ UNCHANGED <<input, loop_vars, conf_vars, out_vars>>

Complete == AtEnd /\ ~is_none(alphabet) /\ ~is_none(tape)

\* options.out is None: println!(to_string_pretty(&tmachineconf))
PrintJson ==
    /\ Complete
    /\ stdout' = Some(tmachineconf)
    /\ pc' = "exited"
    /\ status' = Some(0)
    /\ UNCHANGED <<input, loop_vars, conf_vars, stderr, outfile>>

PrintJsonFails ==
    /\ Complete
    /\ exit(6, "Error occured while converting to json!")
    /\ UNCHANGED <<input, loop_vars, conf_vars, out_vars>>

\* options.out is Some(path): File::create, then to_writer
CreateFails ==
    /\ Complete
    /\ exit(7, "Failed to open file for output!")
    /\ UNCHANGED <<input, loop_vars, conf_vars, out_vars>>

WriteJson ==
    /\ Complete
    /\ outfile' = Some([complete |-> TRUE, json |-> tmachineconf])
    /\ pc' = "exited"
    /\ status' = Some(0)
    /\ UNCHANGED <<input, loop_vars, conf_vars, stderr, stdout>>

WriteJsonFails ==
    /\ Complete
    /\ outfile' = Some([complete |-> FALSE, json |-> tmachineconf])
    /\ exit(8, "Failed to save json to file!")
    /\ UNCHANGED <<input, loop_vars, conf_vars, stdout>>

Next ==
    \/ SourceMissing \/ OpenFails \/ OpenSource
    \/ ReadFails \/ ReadCommand \/ ReadCommandPanics
    \/ ReadAlphabet \/ ReadTape \/ ReadIgnored
    \/ MissingAlphabet \/ MissingTape
    \/ PrintJson \/ PrintJsonFails \/ CreateFails \/ WriteJson \/ WriteJsonFails

Spec == Init /\ [][Next]_vars

TypeOK ==
    /\ pc \in {"start", "loop", "exited", "panicked"}
    /\ pos \in 0..Len(input)
    /\ Len(line) <= 1 /\ Len(new_command) <= 1
    /\ Len(alphabet) <= 1 /\ Len(tape) <= 1 /\ Len(status) <= 1
    /\ Len(stdout) <= 1 /\ Len(outfile) <= 1

\* =================================================================== claims
\* What the claims speak of, stated from the shapes of the lines and not
\* through the parsers.

IsTransitionShape(l) == is_match(command_pattern, l)
IsAlphabetShape(l) == is_match(alphabet_pattern, l)
IsTapeShape(l) == is_match(tape_pattern, l)
IsUnrecognized(l) == ~IsTransitionShape(l) /\ ~IsAlphabetShape(l) /\ ~IsTapeShape(l)

RECURSIVE DigitRunEnd(_, _)
\* The last position of the digit run of l that starts at position i.
DigitRunEnd(l, i) ==
    IF i <= Len(l) /\ l[i] \in RegexDigits THEN DigitRunEnd(l, i + 1) ELSE i - 1

\* The parts S, r, N, w, M of a line of the shape q<S>(<r>) -> q<N>(<w>)<M>.
Fields(l) ==
    LET k1 == DigitRunEnd(l, 2)
        k2 == DigitRunEnd(l, k1 + 9)
    IN  [S |-> SubSeq(l, 2, k1), r |-> l[k1 + 2],
         N |-> SubSeq(l, k1 + 9, k2), w |-> l[k2 + 2], M |-> l[k2 + 4]]

\* A digit run that writes a value of the state type.
IsUsizeText(S) == (\A i \in 1..Len(S) : S[i] \in AsciiDigits) /\ ~ExceedsUsize(S)

Decode(M) == CASE M = "R" -> "Right" [] M = "L" -> "Left" [] M = "S" -> "Stop"

ExpectedRule(l) ==
    LET f == Fields(l)
    IN  [state |-> DecimalValue(f.S), next_state |-> DecimalValue(f.N),
         reading_char |-> f.r, place_char |-> f.w, next_move |-> Decode(f.M)]

\* The characters between the opening parenthesis of a declaration and the
\* closing parenthesis that ends the line.
Content(l) == SubSeq(l, Find(l, <<"(">>, 1) + 1, Len(l) - 1)

CharsOf(s) == {s[i] : i \in 1..Len(s)}

StrictlyAscending(s) ==
    \A i \in 1..(Len(s) - 1) : CodePoint[s[i]] < CodePoint[s[i + 1]]

\* The characters of a set in ascending order, each once.
SortedUnique(S) ==
    CHOOSE s \in [1..Cardinality(S) -> S] : CharsOf(s) = S /\ StrictlyAscending(s)

\* The trimmed lines of the items consumed so far, and of the whole input.
TextsOf(items) == [i \in 1..Len(items) |-> trim(items[i].text)]
Seen == TextsOf(SubSeq(input, 1, pos))

LastIndex(texts, P(_)) ==
    IF \E i \in 1..Len(texts) : P(texts[i])
    THEN CHOOSE i \in 1..Len(texts) :
            P(texts[i]) /\ \A j \in (i + 1)..Len(texts) : ~P(texts[j])
    ELSE 0

NoOutput == stdout = None /\ outfile = None

\* ----------------------------------------------------------------------- C1
\* C1: every line of the transition shape q<S>(<r>) -> q<N>(<w>)<M>, for any
\* single characters r and w (parentheses included) and S, N digit runs (here
\* only runs that write a usize), is parsed into the rule
\* {S, N, r, w, decode(M)}: after the iteration that read such a line,
\* new_command holds that rule.
C1_ParseCommandReturnsRule ==
    (/\ line # None
     /\ IsTransitionShape(unwrap(line))
     /\ IsUsizeText(Fields(unwrap(line)).S)
     /\ IsUsizeText(Fields(unwrap(line)).N))
    => (new_command # None /\ unwrap(new_command) = ExpectedRule(unwrap(line)))

\* ----------------------------------------------------------------------- C9
\* C9: a transition-shaped line whose numeric prefix is not a valid usize
\* (too large, or not ASCII digits) makes the parser report a ParseError; it
\* never ends the run by a panic of unwrap on the ParseIntError.
C9_InvalidNumberNeverPanics ==
    (/\ line # None
     /\ IsTransitionShape(unwrap(line))
     /\ \/ ~IsUsizeText(Fields(unwrap(line)).S)
        \/ ~IsUsizeText(Fields(unwrap(line)).N))
    => ~(/\ pc = "panicked"
         /\ stderr[Len(stderr)] \in {"unwrap on ParseIntError: state_num",
                                     "unwrap on ParseIntError: new_state_num"})

\* ----------------------------------------------------------------------- C5
\* C5: for every line of the tape shape, the tape that the iteration stores
\* is exactly the character sequence between the opening parenthesis and the
\* closing parenthesis that ends the line, marker included, whatever the
\* characters are.
C5_TapeIsContentUnchanged ==
    (line # None /\ IsTapeShape(unwrap(line)))
    => tape = Some(Content(unwrap(line)))

\* ----------------------------------------------------------------------- C6
\* C6: the alphabet stored for an alphabet-shaped line depends only on the set
\* of characters of its content (any other alphabet-shaped line with the same
\* set of content characters parses to the same string), and parsing an
\* alphabet line whose content is that stored alphabet returns it again.
C6_AlphabetOrderIndependentIdempotent ==
    (line # None /\ IsAlphabetShape(unwrap(line)))
    => /\ \A other \in DeclLines :
            (IsAlphabetShape(other)
             /\ CharsOf(Content(other)) = CharsOf(Content(unwrap(line))))
            => Some(parse_alphabet_or_tape(other, FALSE).val) = alphabet
       /\ Some(parse_alphabet_or_tape(
                 RenderDecl(KwAlphabet, 1, unwrap(alphabet)), FALSE).val) = alphabet

\* ----------------------------------------------------------------------- C3
\* C3: once the input is consumed, the alphabet is the sorted, duplicate-free
\* content of the last alphabet-shaped line of the input and the tape is the
\* content of the last tape-shaped line, whatever lines come between or after.
C3_LastDeclarationWins ==
    (pc = "loop" /\ pos = Len(input))
    => LET a == LastIndex(Seen, IsAlphabetShape)
           t == LastIndex(Seen, IsTapeShape)
       IN  /\ a # 0 => alphabet = Some(SortedUnique(CharsOf(Content(Seen[a]))))
           /\ t # 0 => tape = Some(Content(Seen[t]))

\* ----------------------------------------------------------------------- C2
\* C2: a run that reaches the end of the input with the alphabet unset or the
\* tape unset ends in one step with a failure status and without output;
\* whenever output exists (stdout or the output file), both fields are set and
\* the input holds an alphabet-shaped and a tape-shaped line.
C2_OutputOnlyWhenBothDeclared ==
    (stdout # None \/ outfile # None)
    => /\ ~is_none(alphabet) /\ ~is_none(tape)
       /\ \E i \in 1..Len(Seen) : IsAlphabetShape(Seen[i])
       /\ \E i \in 1..Len(Seen) : IsTapeShape(Seen[i])

C2_MissingDeclarationFails ==
    (AtEnd /\ (is_none(alphabet) \/ is_none(tape)))
    => /\ pc' = "exited"
       /\ status' \in {Some(4), Some(5)}
       /\ stdout' = None /\ outfile' = None

\* C2: output exists only when both declarations occurred, and a run at end
\* of input with the alphabet or the tape unset fails without output.
C2_NoOutputWithoutDeclarations ==
    [](C2_OutputOnlyWhenBothDeclared) /\ [][C2_MissingDeclarationFails]_vars

\* The tape alone is missing at the end of a fully consumed input: the run has
\* failed and nothing was written.
C2_Witness ==
    /\ pc = "exited" /\ status = Some(5)
    /\ ~is_none(alphabet) /\ is_none(tape)
    /\ pos = Len(input) /\ pos > 0
    /\ NoOutput

\* ---------------------------------------------------------------------- C10
\* C10: the missing-alphabet failure (status 4) and the missing-tape failure
\* (status 5) occur only once every item of the input is consumed; at the end
\* of input an unset alphabet gives status 4 whatever the tape is, a set
\* alphabet with an unset tape gives status 5; either way exactly one message
\* is reported and nothing is serialized.
C10_StatusMeaning ==
    /\ status = Some(4)
       => /\ pos = Len(input) /\ is_none(alphabet)
          /\ stderr = <<"No alphabet was provided!">> /\ NoOutput
    /\ status = Some(5)
       => /\ pos = Len(input) /\ ~is_none(alphabet) /\ is_none(tape)
          /\ stderr = <<"No tape was provided!">> /\ NoOutput

C10_FirstFailingCheck ==
    /\ (AtEnd /\ is_none(alphabet)) => status' = Some(4)
    /\ (AtEnd /\ ~is_none(alphabet) /\ is_none(tape)) => status' = Some(5)
    /\ (pc = "loop" /\ pos < Len(input)) => status' \notin {Some(4), Some(5)}

\* C10: the end-of-input checks run after the last item, in the order
\* alphabet then tape, and the run stops at the first that fails.
C10_EndChecksOrdered ==
    [](C10_StatusMeaning) /\ [][C10_FirstFailingCheck]_vars

\* Both fields are unset after a non-empty input: status 4 alone is reported.
C10_Witness ==
    /\ status = Some(4) /\ is_none(alphabet) /\ is_none(tape)
    /\ pos = Len(input) /\ pos > 1
    /\ Len(stderr) = 1

\* ----------------------------------------------------------------------- C4
\* C4: after any number of completed iterations, commands is the sequence of
\* the rules of exactly the transition-shaped lines consumed so far, in input
\* order and with repetitions; no step removes, reorders or overwrites an
\* entry.
RulesOf(texts) ==
    LET shaped == SelectSeq(texts, IsTransitionShape)
    IN  [i \in 1..Len(shaped) |-> ExpectedRule(shaped[i])]

C4_CommandsAreRulesSeen == commands = RulesOf(Seen)

C4_CommandsOnlyGrow ==
    /\ Len(commands') >= Len(commands)
    /\ SubSeq(commands', 1, Len(commands)) = commands

\* C4: commands is always the rules of the transition-shaped lines consumed,
\* in order and without deduplication, and it only grows at its end.
C4_RulesAccumulateInOrder ==
    [](C4_CommandsAreRulesSeen) /\ [][C4_CommandsOnlyGrow]_vars

\* The same transition line twice, then another rule for the same (state,
\* read symbol): three entries.
C4_Witness ==
    /\ Len(commands) = 3
    /\ commands[1] = commands[2]
    /\ commands[3] # commands[1]
    /\ commands[3].state = commands[1].state
    /\ commands[3].reading_char = commands[1].reading_char

\* ----------------------------------------------------------------------- C7
\* C7: the alphabet is unset or strictly ascending in character order, and
\* once set it is never unset again.
C7_AlphabetStrictlyAscending ==
    is_none(alphabet) \/ StrictlyAscending(unwrap(alphabet))

\* C7: the alphabet is always unset or strictly ascending, and never becomes
\* unset again.
C7_AlphabetInvariant ==
    [](C7_AlphabetStrictlyAscending) /\ [][~is_none(alphabet) => ~is_none(alphabet')]_vars

\* A declaration with a duplicate that is not adjacent: (aba) is stored as ab.
C7_Witness ==
    /\ line # None /\ IsAlphabetShape(unwrap(line))
    /\ Content(unwrap(line)) = <<"a", "b", "a">>
    /\ alphabet = Some(<<"a", "b">>)

\* ----------------------------------------------------------------------- C8
\* C8: an iteration over a line of none of the three shapes changes neither
\* commands, alphabet nor tape and reports no error; hence after every
\* completed prefix the configuration, and at the end of the run its outcome,
\* are those of the input with the unrecognized lines removed.
C8_UnrecognizedLineSkipped ==
    (HasNext /\ next_item.ok /\ IsUnrecognized(next_line))
    => /\ UNCHANGED <<commands, alphabet, tape, status, stderr, stdout, outfile>>
       /\ pc' = "loop"

Recognized(items) == SelectSeq(items, LAMBDA it : ~it.ok \/ ~IsUnrecognized(trim(it.text)))

RECURSIVE FoldRecognized(_, _)
\* The run over items all of which are read errors or recognized lines: the
\* configuration it builds and how it ends ("end" for a consumed input).
FoldRecognized(items, conf) ==
    IF items = <<>> THEN [conf |-> conf, ends |-> "end"]
    ELSE LET l == trim(Head(items).text)
         IN  IF ~Head(items).ok THEN [conf |-> conf, ends |-> "read error"]
             ELSE IF IsTransitionShape(l)
             THEN IF parse_command(l).kind = "panic"
                  THEN [conf |-> conf, ends |-> "panic"]
                  ELSE FoldRecognized(Tail(items),
                         [conf EXCEPT !.commands = Append(@, parse_command(l).val)])
             ELSE IF IsAlphabetShape(l)
             THEN FoldRecognized(Tail(items),
                    [conf EXCEPT !.alphabet = Some(parse_alphabet_or_tape(l, FALSE).val)])
             ELSE FoldRecognized(Tail(items),
                    [conf EXCEPT !.tape = Some(parse_alphabet_or_tape(l, TRUE).val)])

EmptyConf == [commands |-> <<>>, alphabet |-> None, tape |-> None]

\* How the run at hand has ended, if it has ended after opening the source.
Ends ==
    CASE pc = "panicked" -> "panic"
      [] pc = "exited" /\ status = Some(3) -> "read error"
      [] pc = "exited" /\ status \notin {Some(1), Some(2), Some(3)} -> "end"
      [] OTHER -> "running"

C8_SameAsWithoutUnrecognized ==
    /\ tmachineconf = FoldRecognized(Recognized(SubSeq(input, 1, pos)), EmptyConf).conf
    /\ Ends # "running"
       => LET ref == FoldRecognized(Recognized(input), EmptyConf)
          IN  /\ Ends = ref.ends
              /\ tmachineconf = ref.conf
              /\ Ends = "end"
                 => status \in (IF is_none(ref.conf.alphabet) THEN {Some(4)}
                                ELSE IF is_none(ref.conf.tape) THEN {Some(5)}
                                ELSE {Some(0), Some(6), Some(7), Some(8)})

\* C8: unrecognized lines are skipped without effect or error, so the run
\* equals the run over the input without them.
C8_UnrecognizedLinesIgnored ==
    [](C8_SameAsWithoutUnrecognized) /\ [][C8_UnrecognizedLineSkipped]_vars

\* Unrecognized lines (a move letter X, a tape without its marker) around an
\* alphabet and a tape: the run prints the configuration of the two
\* declarations alone.
C8_Witness ==
    /\ Len(input) = 3 /\ pos = 3
    /\ \E i \in 1..3 : IsUnrecognized(Seen[i])
    /\ status = Some(0)
    /\ stdout = Some(tmachineconf)
    /\ commands = <<>>

====
